---- MODULE Spec2Model ----
(***************************************************************************)
(* State-machine model of SshPluginInstance (ssh_plugin.cc): the bridge    *)
(* between the host's message channel and the native ssh entry point.      *)
(*                                                                         *)
(* Two execution contexts are modelled: the message-handling (main)        *)
(* context, which runs HandleMessage, the deferred callbacks and the       *)
(* native-side output interface (OpenFile, OpenSocket, Write, Read,        *)
(* Close), and one session thread per accepted startSession, which runs    *)
(* SessionThreadImpl step by step.                                         *)
(*                                                                         *)
(* Strings that the code computes with (base64 text, argv tokens, JSON     *)
(* string values) are sequences of character codes.  The fixed log         *)
(* messages and the envelope names are TLA+ strings.                       *)
(***************************************************************************)
EXTENDS Integers, Sequences, FiniteSets, TLC

\* ------------------------------------------------------------------------
\* Bounds of the model
\* ------------------------------------------------------------------------

\* Virtual descriptors are 0..MaxFd.
MaxFd == 1

\* Accepted startSession requests per run (session ids are 1..MaxSessions).
MaxSessions == 2

\* Write payloads hold up to MaxFullChunks full chunks plus a remainder.
MaxFullChunks == 2

\* Write payloads of every size 0..MaxSmall are tried.
MaxSmall == 20

\* ------------------------------------------------------------------------
\* Program constants
\* ------------------------------------------------------------------------

kMaxWriteSize == 24576

kDefaultWriteWindow == 65536

\* std::vector<char> buf(kMaxWriteSize * 4 / 3 + 4)
\* The buffer without the four spare bytes.
WriteBufSizeExact == (kMaxWriteSize * 4) \div 3

WriteBufSize == (kMaxWriteSize * 4) \div 3 + 4

Pad64 == 61

NULL == 0

\* The value pthread_create may leave in openssh_thread_ when it fails.
JunkThread == -1

Fds == 0 .. MaxFd

Sessions == 1 .. MaxSessions

Handles == {"h1", "h2"}

\* Return values of ssh_main.
ExitCodes == {0, 255}

\* ------------------------------------------------------------------------
\* Base64 (b64_ntop / b64_pton of <resolv.h>)
\* ------------------------------------------------------------------------

\* Base64[i]: the character of 6-bit value i.
Base64Char(i) ==
  IF i < 26 THEN 65 + i
  ELSE IF i < 52 THEN 71 + i
  ELSE IF i < 62 THEN i - 4
  ELSE IF i = 62 THEN 43
  ELSE 47

\* strchr(Base64, ch) - Base64, or -1 when ch is not in the alphabet.
Base64Pos(ch) ==
  IF ch >= 65 /\ ch <= 90 THEN ch - 65
  ELSE IF ch >= 97 /\ ch <= 122 THEN ch - 71
  ELSE IF ch >= 48 /\ ch <= 57 THEN ch + 4
  ELSE IF ch = 43 THEN 62
  ELSE IF ch = 47 THEN 63
  ELSE -1

\* isspace(ch)
IsSpace(ch) == ch \in {9, 10, 11, 12, 13, 32}

\* Character j (1-based) of the encoding of the n bytes of src.
NtopChar(src, n, j) ==
  LET q == (j - 1) \div 4
      r == (j - 1) % 4
      b0 == src[3 * q + 1]
      b1 == IF 3 * q + 2 <= n THEN src[3 * q + 2] ELSE 0
      b2 == IF 3 * q + 3 <= n THEN src[3 * q + 3] ELSE 0
  IN CASE r = 0 -> Base64Char(b0 \div 4)
       [] r = 1 -> Base64Char((b0 % 4) * 16 + (b1 \div 16))
       [] r = 2 -> IF 3 * q + 2 > n THEN Pad64
                   ELSE Base64Char((b1 % 16) * 4 + (b2 \div 64))
       [] OTHER -> IF 3 * q + 3 > n THEN Pad64
                   ELSE Base64Char(b2 % 64)

\* b64_ntop(src, srclength, target, targsize): res is the return value
\* (the text length, or -1 when the text and its NUL do not fit), text the
\* characters written before the terminating NUL.
b64_ntop(src, targsize) ==
  LET n == Len(src)
      groups == n \div 3
      datalength == 4 * groups + (IF n % 3 # 0 THEN 4 ELSE 0)
      \* the bounds checks of the loop (one per whole group), of the
      \* remainder, and of the terminating NUL
      overflow == \/ (groups >= 1 /\ 4 * groups > targsize)
                  \/ (n % 3 # 0 /\ 4 * groups + 4 > targsize)
                  \/ datalength >= targsize
  IN IF overflow THEN [res |-> -1, text |-> << >>]
     ELSE [res |-> datalength,
           text |-> SubSeq([j \in 1 .. datalength |-> NtopChar(src, n, j)],
                           1, datalength)]

\* Byte k (0-based) assembled from the characters of the text s.
PtonByte(s, k) ==
  LET g == k \div 3
      r == k % 3
      v1 == Base64Pos(s[4 * g + 1])
      v2 == Base64Pos(s[4 * g + 2])
      v3 == Base64Pos(s[4 * g + 3])
      v4 == Base64Pos(s[4 * g + 4])
  IN CASE r = 0 -> (v1 * 4 + (v2 \div 16)) % 256
       [] r = 1 -> ((v2 % 16) * 16 + (v3 \div 4)) % 256
       [] OTHER -> ((v3 % 4) * 64 + v4) % 256

\* b64_pton(src, target, targsize): res is the return value (the number of
\* bytes, or -1), bytes the decoded target[0 .. res-1].  The single pass of
\* the library routine is given in closed form: white space is skipped
\* everywhere, the text runs up to the first pad, and each state of the
\* 4-state decoder bounds-checks the target index it is about to write.
b64_pton(src, targsize) ==
  LET s == SelectSeq(src, LAMBDA ch : ~IsSpace(ch))
      len == Len(s)
      pads == {i \in 1 .. len : s[i] = Pad64}
      p == IF pads = {} THEN len + 1
           ELSE CHOOSE i \in pads : \A j \in pads : i <= j
      nb == p - 1
      state == nb % 4
      tarindex == (nb \div 4) * 3 + (IF state = 0 THEN 0 ELSE state - 1)
      badChar == \E i \in 1 .. nb : Base64Pos(s[i]) < 0
      \* target index before character i, and the bound each state checks
      noRoom == \E i \in 1 .. nb :
                  LET st == (i - 1) % 4
                      t == ((i - 1) \div 4) * 3 + (IF st = 0 THEN 0 ELSE st - 1)
                  IN IF st = 0 \/ st = 3 THEN t >= targsize
                     ELSE t + 1 >= targsize
      lastv == Base64Pos(s[nb])
      \* target[tarindex], the bits left over by the last character
      leftover == IF state = 2 THEN (lastv % 16) * 16 ELSE (lastv % 4) * 64
      padOk == CASE state = 2 -> /\ len = p + 1
                                 /\ s[p + 1] = Pad64
                                 /\ leftover % 256 = 0
                 [] state = 3 -> /\ len = p
                                 /\ leftover % 256 = 0
                 [] OTHER -> FALSE
      ok == /\ ~badChar
            /\ ~noRoom
            /\ IF p <= len THEN padOk ELSE state = 0
  IN IF ~ok THEN [res |-> -1, bytes |-> << >>]
     ELSE [res |-> tarindex,
           bytes |-> [k \in 1 .. tarindex |-> PtonByte(s, k - 1)]]

\* The characters of s that a const char* into it denotes: up to the first
\* NUL (c_str(), asCString(), a Json::Value built from a char*).
CString(text) ==
  IF \A i \in 1 .. Len(text) : text[i] # 0 THEN text
  ELSE SubSeq(text, 1,
              (CHOOSE i \in 1 .. Len(text) :
                 text[i] = 0 /\ \A j \in 1 .. i - 1 : text[j] # 0) - 1)

\* ------------------------------------------------------------------------
\* The build
\* ------------------------------------------------------------------------

VARIABLES
  ndebug,           \* the build defines NDEBUG: assert() is compiled out
  debug,            \* the build defines DEBUG
  jsoncpp           \* the jsoncpp the build links: "050" (0.5.0) or "1x" (1.x)

\* ------------------------------------------------------------------------
\* JSON values (Json::Value) and envelopes
\* ------------------------------------------------------------------------

\* A value: its kind k, and the content of that kind: n for a number, b for
\* a boolean, s for a string (character codes), a for an array's elements,
\* o for an object (the name of its member table), lit for a string the
\* code holds as a literal.  Numbers come in four kinds: "int", a whole
\* number in the range of int, n its value; "uint", a whole number above
\* INT_MAX and up to UINT_MAX, n its distance from 2^31; "huge", a whole
\* number above UINT_MAX, n its distance from 2^32; "real", a number with
\* the fraction one half, n the odd number of halves (n = 1 is 0.5, n = -3
\* is -1.5).
JNull == [k |-> "null", n |-> 0, b |-> FALSE, s |-> << >>, a |-> << >>,
          o |-> "", lit |-> ""]

JInt(n) == [JNull EXCEPT !.k = "int", !.n = n]

JUInt(n) == [JNull EXCEPT !.k = "uint", !.n = n]

JHuge(n) == [JNull EXCEPT !.k = "huge", !.n = n]

JReal(n) == [JNull EXCEPT !.k = "real", !.n = n]

JBool(b) == [JNull EXCEPT !.k = "bool", !.b = b]

JStr(s) == [JNull EXCEPT !.k = "str", !.s = s]

JLit(lit) == [JNull EXCEPT !.k = "str", !.lit = lit]

JArr(a) == [JNull EXCEPT !.k = "arr", !.a = a]

JObj(o) == [JNull EXCEPT !.k = "obj", !.o = o]

\* Value::isNumeric(): jsoncpp 0.5.0 counts a boolean as integral.
isNumeric(v) ==
  v.k \in {"int", "uint", "huge", "real"} \/ (jsoncpp = "050" /\ v.k = "bool")

isBool(v) == v.k = "bool"

isString(v) == v.k = "str"

\* Value::isObject() and Value::isArray(): jsoncpp 0.5.0 answers true for
\* null as well (a null value has size 0 and no members).
isObject(v) == v.k = "obj" \/ (jsoncpp = "050" /\ v.k = "null")

isArray(v) == v.k = "arr" \/ (jsoncpp = "050" /\ v.k = "null")

\* Value::asInt() converts null, booleans and the numbers in the range of
\* int and fails (throws) on a number outside that range and on strings,
\* arrays and objects.
CanAsInt(v) == v.k \in {"null", "int", "bool", "real"}

\* A real is cut to its whole part (towards zero).
asInt(v) ==
  CASE v.k = "int" -> v.n
    [] v.k = "bool" -> IF v.b THEN 1 ELSE 0
    [] v.k = "real" -> IF v.n >= 0 THEN v.n \div 2 ELSE -((-v.n) \div 2)
    [] OTHER -> 0

\* Value::asUInt() converts null, booleans and the numbers from 0 to
\* UINT_MAX and fails on a negative number (a real below zero included), on
\* a number above UINT_MAX and on strings, arrays and objects.
CanAsUInt(v) ==
  CASE v.k \in {"null", "bool", "uint"} -> TRUE
    [] v.k = "int" -> v.n >= 0
    [] v.k = "real" -> v.n > 0
    [] OTHER -> FALSE

\* The unsigned number asUInt() returns, as a number value.
asUInt(v) == IF v.k = "uint" THEN v ELSE JInt(asInt(v))

\* snprintf("%d", n)
RECURSIVE DecDigits(_)
DecDigits(n) ==
  IF n < 10 THEN <<48 + n>> ELSE Append(DecDigits(n \div 10), 48 + (n % 10))

Dec(n) == IF n < 0 THEN <<45>> \o DecDigits(-n) ELSE DecDigits(n)

\* The decimal text of hi * 10^9 + lo + n, for lo below 10^9 and n >= 0.
BigDec(hi, lo, n) ==
  LET sum == lo + (n % 1000000000)
      low == DecDigits(sum % 1000000000)
  IN DecDigits(hi + (n \div 1000000000) + (sum \div 1000000000))
       \o [i \in 1 .. 9 - Len(low) |-> 48] \o low

\* Value::asString() fails (throws) on arrays and objects, and in jsoncpp
\* 0.5.0 on numbers too.
CanAsString(v) ==
  \/ v.k \in {"null", "str", "bool"}
  \/ jsoncpp = "1x" /\ v.k \in {"int", "uint", "huge", "real"}

\* Value::asString(): the string, "" for null, "true"/"false" for a
\* boolean, and in jsoncpp 1.x the decimal text of a number.  jsoncpp 0.5.0
\* builds the std::string from the char* it stores, so a string ends at its
\* first NUL; 1.x keeps the stored length.
asString(v) ==
  CASE v.k = "str" -> IF jsoncpp = "050" THEN CString(v.s) ELSE v.s
    [] v.k = "bool" -> IF v.b THEN <<116, 114, 117, 101>>
                       ELSE <<102, 97, 108, 115, 101>>
    [] v.k = "int" -> Dec(v.n)
    [] v.k = "uint" -> BigDec(2, 147483648, v.n)
    [] v.k = "huge" -> BigDec(4, 294967296, v.n)
    [] v.k = "real" -> (IF v.n < 0 THEN <<45>> ELSE << >>)
                         \o DecDigits((IF v.n < 0 THEN -v.n ELSE v.n) \div 2)
                         \o <<46, 53>>
    [] OTHER -> << >>

\* The member tables of the objects the host sends.
Members(o) ==
  CASE o = "cfgFull" ->
         [username |-> JStr(<<117>>),
          host |-> JStr(<<104>>),
          port |-> JInt(2222),
          arguments |-> JArr(<<JStr(<<45, 65>>)>>),
          terminalWidth |-> JInt(80),
          terminalHeight |-> JInt(24),
          useJsSocket |-> JBool(TRUE),
          environment |-> JObj("envTerm"),
          authAgentAppID |-> JStr(<<97>>),
          writeWindow |-> JInt(1024)]
    [] o = "cfgArgs" ->
         [username |-> JStr(<<117, 0, 120>>),
          host |-> JStr(<<104>>),
          arguments |-> JArr(<<JStr(<<45, 65>>), JInt(7),
                               JStr(<<45, 118, 0, 120>>)>>),
          terminalWidth |-> JInt(132),
          subsystem |-> JStr(<<115, 102, 116, 112>>)]
    [] o = "cfgPort" ->
         [username |-> JStr(<<117>>),
          host |-> JStr(<<104>>),
          port |-> JStr(<<50, 50>>)]
    [] o = "cfgWide" ->
         [terminalWidth |-> JUInt(852516352),
          terminalHeight |-> JInt(24)]
    [] o = "cfgUser" ->
         [username |-> JInt(5),
          host |-> JStr(<<104, 0, 120>>)]
    [] o = "envTerm" ->
         [TERM |-> JStr(<<120>>),
          N |-> JInt(5)]
    [] OTHER -> [x \in {} |-> JNull]

isMember(v, key) == key \in DOMAIN Members(v.o)

\* v[key] of a const value: null when v has no such member.
Member(v, key) == IF isMember(v, key) THEN Members(v.o)[key] ELSE JNull

\* args[(size_t)i] of a const array: null past the end.
Arg(args, i) == IF i < Len(args) THEN args[i + 1] ELSE JNull

Env(name, args) == [name |-> name, args |-> args]

\* A call made to a collaborator: a stream handle (InputInterface), the
\* file system object, or the process environment.
Note(h, ev, args) == [h |-> h, ev |-> ev, args |-> args]

\* A callback queued by CallOnMainThread; sid names the session whose thread
\* queued it (bookkeeping of the model, not a field of the callback).
Callback(fn, msg, error, sid) ==
  [fn |-> fn, msg |-> msg, error |-> error, sid |-> sid]

\* ------------------------------------------------------------------------
\* State
\* ------------------------------------------------------------------------

VARIABLES
  crashed,          \* the process was aborted (failed assert, uncaught throw)
  openssh_thread_,  \* the session handle: NULL, a thread, or junk
  session_args_,    \* the SessionConfig captured by StartSession
  streams_,         \* the descriptor registry: fd -> stream handle
  pending,          \* callbacks queued for the main thread, oldest first
  thr,              \* session id -> the position of its thread, and its data
  nsess,            \* accepted startSession requests so far
  exits,            \* session id -> 'exit' envelopes sent for it
  out,              \* envelopes posted to the host by the last step
  notes,            \* calls made to collaborators by the last step
  last              \* the last step: its context, operation and inputs

vars == <<ndebug, debug, jsoncpp, crashed, openssh_thread_, session_args_, streams_,
          pending, thr, nsess, exits, out, notes, last>>

buildVars == <<ndebug, debug, jsoncpp>>

sessionVars == <<openssh_thread_, session_args_, thr, nsess, exits>>

NoThread ==
  [pc |-> "none", logs |-> 0, rv |-> 0, argv |-> << >>, subsystem |-> JNull]

Step(ctx, op, m) == [ctx |-> ctx, op |-> op, m |-> m]

Init ==
  /\ ndebug \in BOOLEAN
  /\ debug \in BOOLEAN
  /\ ~(ndebug /\ debug)
  /\ jsoncpp \in {"050", "1x"}
  /\ crashed = FALSE
  /\ openssh_thread_ = NULL
  /\ session_args_ = JNull
  /\ streams_ = [fd \in {} |-> "h1"]
  /\ pending = << >>
  /\ thr = [s \in Sessions |-> NoThread]
  /\ nsess = 0
  /\ exits = [s \in Sessions |-> 0]
  /\ out = << >>
  /\ notes = << >>
  /\ last = Step("main", "construct", [x \in {} |-> 0])

\* ------------------------------------------------------------------------
\* Calls to the file system collaborator (file_system_) and to setenv
\* ------------------------------------------------------------------------

SetTerminalSize(w, h) == Note("file_system_", "SetTerminalSize", <<JInt(w), JInt(h)>>)

UseJsSocket(b) == Note("file_system_", "UseJsSocket", <<JBool(b)>>)

ExitCodeAcked == Note("file_system_", "ExitCodeAcked", << >>)

\* setenv(name, value, 1)
SetEnv(name, value) == Note("environ", "setenv", <<JLit(name), JStr(value)>>)

\* ------------------------------------------------------------------------
\* Registry helpers (InputStreams, a std::map<int, InputInterface*>)
\* ------------------------------------------------------------------------

\* streams_.find(fd) != streams_.end()
Found(m, fd) == fd \in DOMAIN m

\* An erase that removes nothing.
EraseNone(m, fd) == m

\* streams_.erase(it)
Erase(m, fd) == [x \in DOMAIN m \ {fd} |-> m[x]]

\* streams_[fd] = stream
Assign(m, fd, stream) ==
  [x \in DOMAIN m \cup {fd} |-> IF x = fd THEN stream ELSE m[x]]

\* ------------------------------------------------------------------------
\* Outbound envelopes (InvokeJS) and the effects shared by the handlers
\* ------------------------------------------------------------------------

\* PrintLogImpl(result, msg): InvokeJS("printLog", [msg])
PrintLogImpl(msg) == Env("printLog", <<JLit(msg)>>)

\* SendExitCodeImpl(result, error): InvokeJS("exit", [error])
SendExitCodeImpl(error) == Env("exit", <<JInt(error)>>)

\* A handler that only logs: one printLog envelope and nothing else.
LogOnly(msg) ==
  /\ out' = <<PrintLogImpl(msg)>>
  /\ notes' = << >>
  /\ UNCHANGED <<crashed, sessionVars, streams_, pending>>

\* A handler that does nothing at all.
Nothing ==
  /\ out' = << >>
  /\ notes' = << >>
  /\ UNCHANGED <<crashed, sessionVars, streams_, pending>>

\* The process is aborted: a failed assert(), or an exception nobody catches.
Abort ==
  /\ crashed' = TRUE
  /\ out' = << >>
  /\ notes' = << >>
  /\ UNCHANGED <<sessionVars, streams_, pending>>

\* A handler that makes one call to a collaborator and leaves the registry
\* alone.
Forward(note) ==
  /\ out' = << >>
  /\ notes' = <<note>>
  /\ UNCHANGED <<crashed, sessionVars, streams_, pending>>

\* ------------------------------------------------------------------------
\* StartSession
\* ------------------------------------------------------------------------

\* The calls StartSession makes to file_system_: the terminal size when
\* both members are numbers, the socket flavour when it is a boolean.
StartFsCalls(cfg) ==
  LET w == Member(cfg, "terminalWidth")
      h == Member(cfg, "terminalHeight")
      js == Member(cfg, "useJsSocket")
  IN (IF /\ isMember(cfg, "terminalWidth") /\ isNumeric(w)
         /\ isMember(cfg, "terminalHeight") /\ isNumeric(h)
      THEN <<SetTerminalSize(asInt(w), asInt(h))>>
      ELSE << >>)
     \o (IF isMember(cfg, "useJsSocket") /\ isBool(js)
         THEN <<UseJsSocket(js.b)>>
         ELSE << >>)

\* The setenv calls of StartSession for the environment members whose
\* value is a string, in the order given.
RECURSIVE EnvCalls(_, _)
EnvCalls(ms, keys) ==
  IF keys = << >> THEN << >>
  ELSE (IF isString(ms[Head(keys)])
        THEN <<SetEnv(Head(keys), CString(ms[Head(keys)].s))>>
        ELSE << >>) \o EnvCalls(ms, Tail(keys))

\* The member names of the environment objects, in iteration order.
MemberNames(o) == IF o = "envTerm" THEN <<"N", "TERM">> ELSE << >>

StartEnvCalls(cfg) ==
  LET env == Member(cfg, "environment")
      agent == Member(cfg, "authAgentAppID")
  IN (IF isMember(cfg, "environment") /\ isObject(env)
      THEN EnvCalls(Members(env.o), MemberNames(env.o))
      ELSE << >>)
     \o (IF isMember(cfg, "authAgentAppID") /\ isString(agent)
         THEN <<SetEnv("SSH_AUTH_SOCK", CString(agent.s))>>
         ELSE << >>)

\* pthread_create(&openssh_thread_, ...) for session s: it succeeds and
\* stores the new thread, or fails, and then the content of openssh_thread_
\* is unspecified: left as it was (NULL) or overwritten.
PthreadCreate(s) ==
  {[ok |-> TRUE, thread |-> s]}
    \cup {[ok |-> FALSE, thread |-> t] : t \in {NULL, JunkThread}}

NewThread == [NoThread EXCEPT !.pc = "wait"]

FailedThread == [NoThread EXCEPT !.pc = "failed"]

\* StartAccepts without the test of the session handle.
StartAcceptsAnyTime(args) == Len(args) = 1 /\ isObject(Arg(args, 0))

\* The condition under which StartSession accepts the request.
StartAccepts(args) ==
  Len(args) = 1 /\ isObject(Arg(args, 0)) /\ openssh_thread_ = NULL

\* The conversion of the terminal size fails (throws).
StartThrows(cfg) ==
  /\ isMember(cfg, "terminalWidth") /\ isNumeric(Member(cfg, "terminalWidth"))
  /\ isMember(cfg, "terminalHeight") /\ isNumeric(Member(cfg, "terminalHeight"))
  /\ \/ ~CanAsInt(Member(cfg, "terminalWidth"))
     \/ ~CanAsInt(Member(cfg, "terminalHeight"))

StartSession(args) ==
  IF StartAccepts(args) /\ StartThrows(Arg(args, 0))
  THEN Abort  \* asInt() throws
  ELSE IF StartAccepts(args)
  THEN /\ nsess < MaxSessions
       /\ nsess' = nsess + 1
       /\ session_args_' = Arg(args, 0)
       /\ notes' = StartFsCalls(Arg(args, 0)) \o StartEnvCalls(Arg(args, 0))
       /\ \E r \in PthreadCreate(nsess + 1) :
            /\ openssh_thread_' = r.thread
            /\ IF r.ok
               THEN /\ thr' = [thr EXCEPT ![nsess + 1] = NewThread]
                    /\ out' = << >>
                    /\ UNCHANGED exits
               ELSE /\ thr' = [thr EXCEPT ![nsess + 1] = FailedThread]
                    /\ out' = <<SendExitCodeImpl(-1)>>
                    /\ exits' = [exits EXCEPT ![nsess + 1] = @ + 1]
       /\ UNCHANGED <<crashed, streams_, pending>>
  ELSE LogOnly("startSession: invalid arguments\n")

\* ------------------------------------------------------------------------
\* The handlers of the host's replies
\* ------------------------------------------------------------------------

OnOpen(args) ==
  LET fd == Arg(args, 0)
      success == Arg(args, 1)
      is_atty == Arg(args, 2)
  IN IF isNumeric(fd) /\ isBool(success) /\ isBool(is_atty)
     THEN IF ~CanAsInt(fd)
          THEN Abort  \* fd.asInt() throws
          ELSE IF Found(streams_, asInt(fd))
          THEN /\ notes' = <<Note(streams_[asInt(fd)], "OnOpen",
                                  <<JBool(success.b), JBool(is_atty.b)>>)>>
               /\ streams_' = IF ~success.b THEN Erase(streams_, asInt(fd))
                              ELSE streams_
               /\ out' = << >>
               /\ UNCHANGED <<crashed, sessionVars, pending>>
          ELSE LogOnly("onOpen: for unknown file descriptor\n")
     ELSE LogOnly("onOpen: invalid arguments\n")

OnRead(args) ==
  LET fd == Arg(args, 0)
      data == Arg(args, 1)
      str == asString(data)
      \* std::vector<char> buf(str.size() * 3 / 4)
      bufsize == (Len(str) * 3) \div 4
      \* b64_pton(str.c_str(), ...)
      dec == b64_pton(CString(str), bufsize)
  IN IF isNumeric(fd) /\ isString(data)
     THEN IF ~CanAsInt(fd)
          THEN Abort  \* fd.asInt() throws
          ELSE IF Found(streams_, asInt(fd))
          THEN \* &buf[0] of an empty vector is undefined: the build aborts
               \* there (a checked operator[]) or goes on with the pointer
               \/ bufsize = 0 /\ Abort
               \/ IF dec.res < 0 /\ ~ndebug
                  THEN Abort  \* assert(res >= 0)
                  ELSE Forward(Note(streams_[asInt(fd)], "OnRead",
                                    <<JStr(dec.bytes), JInt(dec.res)>>))
          ELSE LogOnly("onRead: for unknown file descriptor\n")
     ELSE LogOnly("onRead: invalid arguments\n")

OnWriteAcknowledge(args) ==
  LET fd == Arg(args, 0)
      count == Arg(args, 1)
  IN IF isNumeric(fd) /\ isNumeric(count)
     THEN IF ~CanAsInt(fd)
          THEN Abort  \* fd.asInt() throws
          ELSE IF Found(streams_, asInt(fd))
          THEN IF CanAsUInt(count)
               THEN Forward(Note(streams_[asInt(fd)], "OnWriteAcknowledge",
                                 <<asUInt(count)>>))
               ELSE Abort  \* count.asUInt() throws
          ELSE LogOnly("onWriteAcknowledge: for unknown file descriptor\n")
     ELSE LogOnly("onWriteAcknowledge: invalid arguments\n")

\* OnClose that notifies the handle and keeps the fd.
OnCloseNoErase(args) ==
  LET fd == Arg(args, 0)
  IN IF ~CanAsInt(fd)
     THEN Abort
     ELSE IF Found(streams_, asInt(fd))
          THEN Forward(Note(streams_[asInt(fd)], "OnClose", << >>))
          ELSE LogOnly("onClose: for unknown file descriptor\n")

OnClose(args) ==
  LET fd == Arg(args, 0)
  IN IF ~CanAsInt(fd)
     THEN Abort  \* fd.asInt() throws
     ELSE IF Found(streams_, asInt(fd))
          THEN /\ notes' = <<Note(streams_[asInt(fd)], "OnClose", << >>)>>
               /\ streams_' = Erase(streams_, asInt(fd))
               /\ out' = << >>
               /\ UNCHANGED <<crashed, sessionVars, pending>>
          ELSE LogOnly("onClose: for unknown file descriptor\n")

OnReadReady(args) ==
  LET fd == Arg(args, 0)
      result == Arg(args, 1)
  IN IF isNumeric(fd) /\ isBool(result)
     THEN IF ~CanAsInt(fd)
          THEN Abort  \* fd.asInt() throws
          ELSE IF Found(streams_, asInt(fd))
          THEN Forward(Note(streams_[asInt(fd)], "OnReadReady",
                            <<JBool(result.b)>>))
          ELSE LogOnly("onReadReady: for unknown file descriptor\n")
     ELSE LogOnly("onReadReady: invalid arguments\n")

OnResize(args) ==
  IF ~CanAsInt(Arg(args, 0)) \/ ~CanAsInt(Arg(args, 1))
  THEN Abort  \* asInt() throws
  ELSE Forward(SetTerminalSize(asInt(Arg(args, 0)), asInt(Arg(args, 1))))

OnExitAcknowledge(args) == Forward(ExitCodeAcked)

\* ------------------------------------------------------------------------
\* HandleMessage and Invoke
\* ------------------------------------------------------------------------

Invoke(function, args) ==
  CASE function = "startSession" -> StartSession(args)
    [] function \in {"onOpenFile", "onOpenSocket"} -> OnOpen(args)
    [] function = "onRead" -> OnRead(args)
    [] function = "onWriteAcknowledge" -> OnWriteAcknowledge(args)
    [] function = "onClose" -> OnClose(args)
    [] function = "onReadReady" -> OnReadReady(args)
    [] function = "onResize" -> OnResize(args)
    [] function = "onExitAcknowledge" -> OnExitAcknowledge(args)
    [] OTHER -> Nothing

\* A raw message: var says whether the pp::Var is a string, json whether
\* the text parses, root the kind of the parsed value, nk the kind of
\* root["name"], name the characters of that member up to its first NUL
\* ("" when the member is missing or empty), nul whether a NUL and more
\* characters follow them, args the value of root["arguments"].
Raw(var, json, root, name, args) ==
  [var |-> var, json |-> json, root |-> root,
   nk |-> IF name = "" THEN "null" ELSE "str", name |-> name, nul |-> FALSE,
   args |-> args]

\* A parsed object whose "name" member is of kind nk, not a string: an
\* empty array or object, or the number 5 (which asString() turns into "5"
\* where it converts numbers).
RawName(nk, args) ==
  [Raw("string", "ok", "obj", "", args) EXCEPT
     !.nk = nk, !.name = IF nk = "int" THEN "5" ELSE ""]

\* root["name"].asString() fails (throws) on an array and on an object, and
\* in jsoncpp 0.5.0 on a number.
NameThrows(raw) ==
  /\ raw.var = "string"
  /\ raw.json = "ok" /\ raw.root = "obj"
  /\ \/ raw.nk \in {"arr", "obj"}
     \/ raw.nk = "int" /\ jsoncpp = "050"

\* The envelope {name, arguments} as the host serialises it.
Envelope(name, args) == Raw("string", "ok", "obj", name, JArr(args))

\* An envelope whose name is the given text, a NUL and the letter x.
RawNul(name, args) ==
  [Envelope(name, args) EXCEPT !.nk = "str", !.nul = TRUE]

\* std::string function = root["name"].asString(): jsoncpp 0.5.0 ends the
\* string at its first NUL, 1.x keeps all of it ("\0x" stands for the NUL
\* and the x; such a string equals none of the handler names).
Function(raw) ==
  IF raw.nul /\ jsoncpp = "1x" THEN raw.name \o "\\0x" ELSE raw.name

\* The test HandleMessage makes before it calls Invoke.
Dispatches(raw) ==
  /\ raw.var = "string"
  /\ raw.json = "ok" /\ raw.root = "obj"
  /\ Function(raw) # "" /\ isArray(raw.args)

HandleMessage(raw) ==
  /\ ~crashed
  /\ IF NameThrows(raw) THEN Abort
     ELSE IF Dispatches(raw) THEN Invoke(Function(raw), raw.args.a)
     ELSE Nothing
  /\ last' = Step("main", "HandleMessage", raw)
  /\ UNCHANGED buildVars

\* ------------------------------------------------------------------------
\* Deferred callbacks (CallOnMainThread)
\* ------------------------------------------------------------------------

\* The main thread runs the newest queued callback.
RunCallbackNewest ==
  /\ ~crashed
  /\ pending # << >>
  /\ LET cb == pending[Len(pending)]
     IN /\ pending' = SubSeq(pending, 1, Len(pending) - 1)
        /\ IF cb.fn = "SendExitCodeImpl"
           THEN /\ out' = <<SendExitCodeImpl(cb.error)>>
                /\ exits' = [exits EXCEPT ![cb.sid] = @ + 1]
           ELSE /\ out' = <<PrintLogImpl(cb.msg)>>
                /\ UNCHANGED exits
        /\ last' = Step("main", "RunCallback", cb)
  /\ notes' = << >>
  /\ UNCHANGED <<buildVars, crashed, openssh_thread_, session_args_, thr,
                 nsess, streams_>>

\* The main thread runs the oldest queued callback.
RunCallback ==
  /\ ~crashed
  /\ pending # << >>
  /\ LET cb == Head(pending)
     IN /\ pending' = Tail(pending)
        /\ IF cb.fn = "SendExitCodeImpl"
           THEN /\ out' = <<SendExitCodeImpl(cb.error)>>
                /\ exits' = [exits EXCEPT ![cb.sid] = @ + 1]
           ELSE /\ out' = <<PrintLogImpl(cb.msg)>>
                /\ UNCHANGED exits
        /\ last' = Step("main", "RunCallback", cb)
  /\ notes' = << >>
  /\ UNCHANGED <<buildVars, crashed, openssh_thread_, session_args_, thr,
                 nsess, streams_>>

\* ------------------------------------------------------------------------
\* The session thread (SessionThread, SessionThreadImpl, SendExitCode)
\* ------------------------------------------------------------------------

\* What a step of session s's thread leaves alone.
ThreadFrame ==
  /\ out' = << >>
  /\ notes' = << >>
  /\ UNCHANGED <<buildVars, session_args_, nsess, exits, streams_>>

\* The string entries of the session's argument list, in order.
ArgStrings(cfg) ==
  LET arr == Member(cfg, "arguments")
      strs == SelectSeq(arr.a, isString)
  IN IF isMember(cfg, "arguments") /\ isArray(arr)
     THEN [i \in 1 .. Len(strs) |-> CString(strs[i].s)]
     ELSE << >>

\* The number of PrintLog("startSession: invalid argument\n") calls.
ArgLogs(cfg) ==
  LET arr == Member(cfg, "arguments")
  IN IF isMember(cfg, "arguments") /\ isArray(arr)
     THEN Len(SelectSeq(arr.a, LAMBDA v : ~isString(v)))
     ELSE 0

\* The argument vector with the user@host token before the port.
BuildArgvUserFirst(cfg) ==
  LET verbose == IF debug THEN <<<<45, 118, 118, 118>>>> ELSE << >>
      port == IF isMember(cfg, "port")
              THEN <<<<45, 112>> \o Dec(asInt(Member(cfg, "port")))>>
              ELSE << >>
      username_hostname ==
        IF isMember(cfg, "username") /\ isMember(cfg, "host")
        THEN <<CString(asString(Member(cfg, "username")) \o <<64>>
                         \o asString(Member(cfg, "host")))>>
        ELSE << >>
  IN <<<<115, 115, 104>>>> \o verbose \o ArgStrings(cfg) \o username_hostname
       \o port

\* The argument vector handed to ssh_main.
BuildArgv(cfg) ==
  LET verbose == IF debug THEN <<<<45, 118, 118, 118>>>> ELSE << >>
      port == IF isMember(cfg, "port")
              THEN <<<<45, 112>> \o Dec(asInt(Member(cfg, "port")))>>
              ELSE << >>
      username_hostname ==
        IF isMember(cfg, "username") /\ isMember(cfg, "host")
        THEN <<CString(asString(Member(cfg, "username")) \o <<64>>
                         \o asString(Member(cfg, "host")))>>
        ELSE << >>
  IN <<<<115, 115, 104>>>> \o verbose \o ArgStrings(cfg) \o port
       \o username_hostname

\* The subsystem parameter of ssh_main: null for a NULL pointer.
Subsystem(cfg) ==
  IF isMember(cfg, "subsystem")
  THEN JStr(CString(asString(Member(cfg, "subsystem"))))
  ELSE JNull

\* A conversion of SessionThreadImpl fails (throws): asInt() of the port,
\* asString() of the username, the host or the subsystem.
ThreadThrows(cfg) ==
  \/ isMember(cfg, "port") /\ ~CanAsInt(Member(cfg, "port"))
  \/ /\ isMember(cfg, "username") /\ isMember(cfg, "host")
     /\ \/ ~CanAsString(Member(cfg, "username"))
        \/ ~CanAsString(Member(cfg, "host"))
  \/ isMember(cfg, "subsystem") /\ ~CanAsString(Member(cfg, "subsystem"))

\* SessionThreadImpl, the loop over the argument list up to its next entry
\* that is not a string: PrintLog queues a callback for the main thread.
\* (WaitForStdFiles has returned; the entries before it went to argv, which
\* is local to the thread.)
PrintLog(s) ==
  /\ ~crashed
  /\ thr[s].pc = "wait"
  /\ thr[s].logs < ArgLogs(session_args_)
  /\ pending' = Append(pending,
                       Callback("PrintLogImpl",
                                "startSession: invalid argument\n", 0, s))
  /\ thr' = [thr EXCEPT ![s].logs = @ + 1]
  /\ last' = Step("session", "PrintLog", [sid |-> s])
  /\ UNCHANGED <<crashed, openssh_thread_>>
  /\ ThreadFrame

\* SessionThreadImpl from the end of the loop to the call of ssh_main: the
\* rest of the argument vector is built and ssh_main is entered, unless a
\* conversion throws on the way.
CallSshMain(s) ==
  /\ ~crashed
  /\ thr[s].pc = "wait"
  /\ thr[s].logs = ArgLogs(session_args_)
  /\ IF ThreadThrows(session_args_)
     THEN /\ crashed' = TRUE
          /\ UNCHANGED thr
     ELSE /\ thr' = [thr EXCEPT ![s] =
                       [pc |-> "main", logs |-> thr[s].logs, rv |-> 0,
                        argv |-> BuildArgv(session_args_),
                        subsystem |-> Subsystem(session_args_)]]
          /\ UNCHANGED crashed
  /\ last' = Step("session", "CallSshMain", [sid |-> s])
  /\ UNCHANGED <<openssh_thread_, pending>>
  /\ ThreadFrame

\* ssh_main returns rv and SendExitCode(rv) runs its first statement: the
\* exit callback is queued for the main thread.
SshMainReturns(s, rv) ==
  /\ ~crashed
  /\ thr[s].pc = "main"
  /\ pending' = Append(pending, Callback("SendExitCodeImpl", "", rv, s))
  /\ thr' = [thr EXCEPT ![s].pc = "posted", ![s].rv = rv]
  /\ last' = Step("session", "SshMainReturns", [sid |-> s])
  /\ UNCHANGED <<crashed, openssh_thread_>>
  /\ ThreadFrame

\* SendExitCode, second statement: openssh_thread_ = NULL.
SendExitCodeClear(s) ==
  /\ ~crashed
  /\ thr[s].pc = "posted"
  /\ openssh_thread_' = NULL
  /\ thr' = [thr EXCEPT ![s].pc = "cleared"]
  /\ last' = Step("session", "SendExitCodeClear", [sid |-> s])
  /\ UNCHANGED <<crashed, pending>>
  /\ ThreadFrame

\* SessionThreadImpl and SessionThread return: the thread ends.
SessionThreadReturns(s) ==
  /\ ~crashed
  /\ thr[s].pc = "cleared"
  /\ thr' = [thr EXCEPT ![s] = [NoThread EXCEPT !.pc = "done", !.rv = thr[s].rv]]
  /\ last' = Step("session", "SessionThreadReturns", [sid |-> s])
  /\ UNCHANGED <<crashed, openssh_thread_, pending>>
  /\ ThreadFrame

\* ------------------------------------------------------------------------
\* The output interface the native side calls (OpenFile ... Close)
\* ------------------------------------------------------------------------

\* What a call of the output interface leaves alone.
OutputFrame ==
  /\ notes' = << >>
  /\ UNCHANGED <<buildVars, sessionVars, pending>>

\* assert(streams_.find(fd) == streams_.end()); streams_[fd] = stream;
Register(fd, stream) ==
  IF Found(streams_, fd) /\ ~ndebug
  THEN crashed' = TRUE /\ UNCHANGED streams_
  ELSE streams_' = Assign(streams_, fd, stream) /\ UNCHANGED crashed

\* name is null for a NULL pointer.
OpenFile(fd, name, mode, stream) ==
  /\ ~crashed
  /\ out' = IF name.k # "null"
            THEN <<Env("openFile", <<JInt(fd), name, JInt(mode)>>)>>
            ELSE << >>
  /\ Register(fd, stream)
  /\ last' = Step("main", "OpenFile",
                  [fd |-> fd, name |-> name, stream |-> stream, ret |-> TRUE])
  /\ OutputFrame

OpenSocket(fd, host, port, stream) ==
  /\ ~crashed
  /\ out' = <<Env("openSocket", <<JInt(fd), host, JInt(port)>>)>>
  /\ Register(fd, stream)
  /\ last' = Step("main", "OpenSocket",
                  [fd |-> fd, name |-> host, stream |-> stream, ret |-> TRUE])
  /\ OutputFrame

\* chunk_size of the Write loop.
ChunkSize(size, start) ==
  IF size - start <= kMaxWriteSize THEN size - start ELSE kMaxWriteSize

\* The loop of Write from offset start on, sent holding the envelopes
\* posted so far: ret is the return value, abort says that assert(res > 0)
\* failed.
RECURSIVE WriteLoop(_, _, _, _, _)
WriteLoop(fd, data, size, start, sent) ==
  IF ~(start < size)
  THEN [ret |-> TRUE, envs |-> sent, abort |-> FALSE]
  ELSE LET chunk_size == ChunkSize(size, start)
           enc == b64_ntop(SubSeq(data, start + 1, start + chunk_size),
                           WriteBufSize)
       IN IF enc.res <= 0
          THEN [ret |-> FALSE, envs |-> sent, abort |-> ~ndebug]
          ELSE WriteLoop(fd, data, size, start + chunk_size,
                         Append(sent, Env("write",
                                          <<JInt(fd), JStr(CString(enc.text))>>)))

Write(fd, data) ==
  /\ ~crashed
  /\ LET w == WriteLoop(fd, data, Len(data), 0, << >>)
     IN /\ out' = w.envs
        /\ crashed' = w.abort
        /\ last' = Step("main", "Write",
                        [fd |-> fd, data |-> data, ret |-> w.ret])
  /\ UNCHANGED streams_
  /\ OutputFrame

Read(fd, size) ==
  /\ ~crashed
  /\ out' = <<Env("read", <<JInt(fd), JInt(size)>>)>>
  /\ last' = Step("main", "Read", [fd |-> fd, size |-> size, ret |-> TRUE])
  /\ UNCHANGED <<crashed, streams_>>
  /\ OutputFrame

Close(fd) ==
  /\ ~crashed
  /\ out' = <<Env("close", <<JInt(fd)>>)>>
  /\ last' = Step("main", "Close", [fd |-> fd, ret |-> TRUE])
  /\ UNCHANGED <<crashed, streams_>>
  /\ OutputFrame

\* The decimal text of n in exactly w digits.
RECURSIVE Digits(_, _)
Digits(n, w) ==
  IF w = 0 THEN ""
  ELSE Digits(n \div 10, w - 1)
         \o <<"0", "1", "2", "3", "4", "5", "6", "7", "8", "9">>[(n % 10) + 1]

\* The int n converted to size_t (64 bits): n itself, or 2^64 + n for a
\* negative n.  2^64 is 18 446744073 709551616; the sum is past the
\* integers of the checker and is given as its decimal text.
SizeT(n) ==
  IF n >= 0 THEN n
  ELSE LET low == 709551616 + n
           borrow == IF low >= 0 THEN 0
                     ELSE IF low + 1000000000 >= 0 THEN 1
                     ELSE IF low + 2000000000 >= 0 THEN 2 ELSE 3
       IN "18" \o Digits(446744073 - borrow, 9)
               \o Digits(low + borrow * 1000000000, 9)

\* GetWriteWindow() fails: asInt() throws in the caller's thread.
GetWriteWindowThrows ==
  /\ isMember(session_args_, "writeWindow")
  /\ isNumeric(Member(session_args_, "writeWindow"))
  /\ ~CanAsInt(Member(session_args_, "writeWindow"))

\* GetWriteWindow(), when it returns
GetWriteWindow ==
  IF /\ isMember(session_args_, "writeWindow")
     /\ isNumeric(Member(session_args_, "writeWindow"))
  THEN SizeT(asInt(Member(session_args_, "writeWindow")))
  ELSE kDefaultWriteWindow

\* ------------------------------------------------------------------------
\* Inputs
\* ------------------------------------------------------------------------

\* Data strings of onRead: "QQ==" decodes, "Q!==" has a character outside
\* the alphabet, "QQ=" has bad padding, "" leaves the buffer empty.
ReadTexts == {<<81, 81, 61, 61>>, <<81, 33, 61, 61>>, <<81, 81, 61>>, << >>}

\* Numbers that are no int: 3000000000, 5000000000 and 0.5.
ThreeBillion == JUInt(852516352)

FiveBillion == JHuge(705032704)

Half == JReal(1)

\* Envelopes of the shape the protocol gives each name.
WellShaped ==
  {Envelope("startSession", <<JObj(c)>>) :
     c \in {"cfgFull", "cfgArgs", "cfgPort", "cfgUser", "cfgWide"}}
    \cup {Envelope("onOpenFile", <<JInt(fd), JBool(ok), JBool(tty)>>) :
            fd \in Fds, ok \in BOOLEAN, tty \in BOOLEAN}
    \cup {Envelope("onOpenSocket", <<JInt(fd), JBool(ok), JBool(FALSE)>>) :
            fd \in Fds, ok \in BOOLEAN}
    \cup {Envelope("onRead", <<JInt(fd), JStr(txt)>>) : fd \in Fds, txt \in ReadTexts}
    \cup {Envelope("onWriteAcknowledge", <<JInt(fd), JInt(c)>>) :
            fd \in Fds, c \in {3, -1}}
    \cup {Envelope("onWriteAcknowledge", <<JInt(0), c>>) :
            c \in {ThreeBillion, FiveBillion}}
    \cup {Envelope("onClose", <<JInt(fd)>>) : fd \in Fds}
    \cup {Envelope("onClose", <<Half>>)}
    \cup {Envelope("onReadReady", <<JInt(fd), JBool(b)>>) : fd \in Fds, b \in BOOLEAN}
    \cup {Envelope("onReadReady", <<ThreeBillion, JBool(TRUE)>>)}
    \cup {Envelope("onResize", <<JInt(100), JInt(30)>>)}
    \cup {Envelope("onExitAcknowledge", << >>)}

\* Envelopes with a known name and the wrong argument count or types.
IllShaped ==
  {Envelope("startSession", a) : a \in {<< >>, <<JInt(1)>>, <<JNull>>}}
    \cup {Envelope("onOpenFile", a) :
            a \in {<< >>, <<JInt(0), JInt(1), JBool(TRUE)>>,
                   <<JInt(0), JBool(FALSE), JBool(FALSE), JInt(9)>>}}
    \cup {Envelope("onRead", a) : a \in {<<JInt(0)>>, <<JInt(0), JInt(5)>>}}
    \cup {Envelope("onWriteAcknowledge", a) :
            a \in {<<JInt(0)>>, <<JInt(0), JStr(<<51>>)>>,
                   <<JInt(0), JBool(TRUE)>>}}
    \cup {Envelope("onClose", a) : a \in {<< >>, <<JStr(<<48>>)>>}}
    \cup {Envelope("onReadReady", a) : a \in {<<JInt(0)>>, <<JInt(0), JInt(1)>>}}
    \cup {Envelope("onResize", a) :
            a \in {<< >>, <<JInt(100)>>, <<JStr(<<56, 48>>), JInt(30)>>}}
    \cup {Envelope("onExitAcknowledge", <<JInt(1)>>)}

\* Messages HandleMessage does not dispatch, and envelopes with an unknown
\* name.
Other ==
  {Raw("other", "bad", "other", "", JNull),
   Raw("string", "bad", "other", "", JNull),
   Raw("string", "ok", "other", "", JNull),
   Raw("string", "ok", "obj", "", JArr(<< >>)),
   Raw("string", "ok", "obj", "onClose", JInt(0)),
   Raw("string", "ok", "obj", "onClose", JNull),
   RawName("arr", JArr(<< >>)),
   RawName("int", JArr(<< >>)),
   Envelope("bogus", << >>),
   Envelope("onclose", <<JInt(0)>>),
   RawNul("onClose", <<JInt(0)>>)}

Inbound == WellShaped \cup IllShaped \cup Other

\* The messages that reach the session controller, and one that reaches a
\* handler which converts its argument without looking at it.
SessionInbound ==
  {raw \in WellShaped : raw.name \in {"startSession", "onExitAcknowledge"}}
    \cup {Envelope("startSession", a) : a \in {<<JInt(1)>>, <<JNull>>}}
    \cup {Envelope("onClose", <<JStr(<<48>>)>>)}

\* The messages that reach the stream registry and the terminal.
StreamInbound == {raw \in Inbound : raw.name # "startSession"}

\* The messages of a session with descriptors: one configuration, the two
\* replies that remove a descriptor, and the messages that are not handled.
BridgeInbound ==
  {Envelope("startSession", <<JObj("cfgArgs")>>)}
    \cup {Envelope("onClose", <<JInt(fd)>>) : fd \in Fds}
    \cup {Envelope("onOpenFile", <<JInt(fd), JBool(FALSE), JBool(FALSE)>>) :
            fd \in Fds}
    \cup Other

\* Payloads of Write next to the other stream operations.
SmallPayloads == {<< >>, <<65, 66, 67, 68>>}

\* ------------------------------------------------------------------------
\* The specifications.  The session controller (openssh_thread_,
\* session_args_, the session threads and the main-thread callback queue) and
\* the stream registry (streams_) share no state: every handler and every
\* native operation writes one of the two and leaves the other alone.  Spec
\* runs the session controller, StreamSpec the registry, WriteSpec one call of
\* Write with payloads around the chunk ceiling, and BridgeSpec the two
\* together with few inputs.
\* ------------------------------------------------------------------------

Next ==
  \/ \E raw \in SessionInbound : HandleMessage(raw)
  \/ RunCallback
  \/ \E s \in Sessions : PrintLog(s)
  \/ \E s \in Sessions : CallSshMain(s)
  \/ \E s \in Sessions, rv \in ExitCodes : SshMainReturns(s, rv)
  \/ \E s \in Sessions : SendExitCodeClear(s)
  \/ \E s \in Sessions : SessionThreadReturns(s)

Spec == Init /\ [][Next]_vars

NextStream ==
  \/ \E raw \in StreamInbound : HandleMessage(raw)
  \/ \E fd \in Fds, name \in {JNull, JStr(<<102>>)}, stream \in Handles :
       OpenFile(fd, name, 0, stream)
  \/ \E fd \in Fds, stream \in Handles : OpenSocket(fd, JStr(<<104>>), 22, stream)
  \/ \E fd \in Fds, data \in SmallPayloads : Write(fd, data)
  \/ \E fd \in Fds : Read(fd, 4096)
  \/ \E fd \in Fds : Close(fd)

StreamSpec == Init /\ [][NextStream]_vars

\* The native side opens a file while ssh_main runs.
NativeOpenFile(fd, stream) ==
  /\ \E s \in Sessions : thr[s].pc = "main"
  /\ OpenFile(fd, JNull, 0, stream)

\* The session controller and the registry together, with few inputs:
\* descriptors are opened by the native side of a running session.
NextBridge ==
  \/ \E raw \in BridgeInbound : HandleMessage(raw)
  \/ RunCallback
  \/ \E s \in Sessions : PrintLog(s)
  \/ \E s \in Sessions : CallSshMain(s)
  \/ \E s \in Sessions : SshMainReturns(s, 0)
  \/ \E s \in Sessions : SendExitCodeClear(s)
  \/ \E s \in Sessions : SessionThreadReturns(s)
  \/ \E fd \in Fds : NativeOpenFile(fd, "h1")

BridgeSpec == Init /\ [][NextBridge]_vars

\* Payload sizes: 0..MaxSmall, the ceiling and its neighbours, and some full
\* chunks plus 7 bytes.
WriteSizes ==
  (0 .. MaxSmall)
    \cup {kMaxWriteSize - 1, kMaxWriteSize, kMaxWriteSize + 1}
    \cup {k * kMaxWriteSize + 7 : k \in 1 .. MaxFullChunks}

\* A payload of n bytes that runs through all 256 byte values.
Payload(n) == SubSeq([i \in 1 .. n |-> (i * 7) % 256], 1, n)

WritePayload ==
  /\ last.op = "construct"
  /\ \E fd \in {0, MaxFd}, n \in WriteSizes : Write(fd, Payload(n))

NextW == WritePayload

WriteSpec == Init /\ [][NextW]_vars

\* ------------------------------------------------------------------------
\* Properties of the session controller
\* ------------------------------------------------------------------------

\* The last step handled an inbound startSession envelope.
StartSessionStep == last.op = "HandleMessage" /\ last.m.name = "startSession"

\* The native entry point of session s has been started and has not returned.
Running(s) == thr[s].pc = "main"

\* The execution contexts that were created and have not yet cleared the
\* session handle.
Uncleared == {s \in Sessions : thr[s].pc \in {"wait", "main", "posted"}}

\* The execution contexts that were created and have not ended.
Existing == {s \in Sessions : thr[s].pc \in {"wait", "main", "posted", "cleared"}}

InvalidArguments == <<PrintLogImpl("startSession: invalid arguments\n")>>

\* A startSession handled while a session is Running starts no context,
\* leaves the captured SessionConfig and the handle alone and posts the
\* 'startSession: invalid arguments' printLog.
RejectsWhileRunning ==
  [][(StartSessionStep' /\ \E s \in Sessions : Running(s))
       => /\ thr' = thr /\ nsess' = nsess
          /\ session_args_' = session_args_
          /\ openssh_thread_' = openssh_thread_
          /\ out' = InvalidArguments /\ notes' = << >>]_vars

\* C1 (as amended): a startSession that arrives while a session is Running
\* is rejected: no second execution context is started, the captured
\* SessionConfig is not replaced and the 'startSession: invalid arguments'
\* printLog is emitted; at most one execution context that has not yet
\* cleared the session handle exists at any time.
C1_SingleFlight == RejectsWhileRunning /\ [](Cardinality(Uncleared) <= 1)

\* C1 witness: a well-formed startSession with another configuration was
\* handled while session 1 was inside the entry point, and was rejected.
C1_RejectedWhileRunning ==
  /\ StartSessionStep
  /\ last.m = Envelope("startSession", <<JObj("cfgArgs")>>)
  /\ Running(1) /\ session_args_ = JObj("cfgFull")
  /\ out = InvalidArguments

\* C1 as stated: the rejection while Running, and at most one session
\* execution context exists at any time.
C1_AtMostOneContext == RejectsWhileRunning /\ [](Cardinality(Existing) <= 1)

\* C2: every accepted startSession gets exactly one 'exit' envelope, never
\* zero and never two, and no 'exit' envelope is sent without an accepted
\* startSession: no session has more than one, a session that was not
\* accepted has none, and when the process has ended every accepted session
\* has had its one.
C2_ExactlyOneExit ==
  /\ \A s \in Sessions : exits[s] <= 1 /\ (s > nsess => exits[s] = 0)
  /\ crashed => \A s \in 1 .. nsess : exits[s] = 1

\* C3: the session handle is written on the message-handling context only;
\* the session context writes nothing to it.
C3_HandleWrittenOnMainOnly ==
  [][openssh_thread_' # openssh_thread_ => last'.ctx = "main"]_vars

\* C4: when the handling of a startSession envelope reports exit code -1
\* (the execution context could not be created), the session controller is
\* Idle afterwards: the session handle is clear.
C4_IdleAfterFailedStart ==
  (StartSessionStep /\ out = <<SendExitCodeImpl(-1)>>) => openssh_thread_ = NULL

\* ------------------------------------------------------------------------
\* Properties of the message handlers and the stream registry
\* ------------------------------------------------------------------------

\* The argument kinds the protocol gives each inbound envelope name.
ExpectedShape(name) ==
  CASE name = "startSession" -> <<"obj">>
    [] name \in {"onOpenFile", "onOpenSocket"} -> <<"number", "bool", "bool">>
    [] name = "onRead" -> <<"number", "str">>
    [] name = "onWriteAcknowledge" -> <<"number", "number">>
    [] name = "onClose" -> <<"number">>
    [] name = "onReadReady" -> <<"number", "bool">>
    [] name = "onResize" -> <<"number", "number">>
    [] name = "onExitAcknowledge" -> << >>
    [] OTHER -> <<"?">>

Kinds(args) ==
  [i \in 1 .. Len(args) |->
     IF args[i].k \in {"int", "uint", "huge", "real"} THEN "number"
     ELSE args[i].k]

HandlerNames ==
  {"startSession", "onOpenFile", "onOpenSocket", "onRead",
   "onWriteAcknowledge", "onClose", "onReadReady", "onResize",
   "onExitAcknowledge"}

\* The names of the operations on a descriptor.
FdNames ==
  {"onOpenFile", "onOpenSocket", "onRead", "onWriteAcknowledge", "onClose",
   "onReadReady"}

\* The last step handled an envelope with one of the known names.
HandlerStep ==
  /\ last.op = "HandleMessage" /\ Dispatches(last.m)
  /\ ~last.m.nul /\ last.m.name \in HandlerNames

ShapeOK == Kinds(last.m.args.a) = ExpectedShape(last.m.name)

\* The last step handled a well-shaped envelope of an operation on a
\* descriptor.
FdOperation == HandlerStep /\ last.m.name \in FdNames /\ ShapeOK

\* The fd of that envelope is a whole number in the range of int, as every
\* fd the registry can hold is; StepFd is that descriptor.
FdStep == FdOperation /\ last.m.args.a[1].k = "int"

StepFd == last.m.args.a[1].n

OneDiagnostic == Len(out) = 1 /\ out[1].name = "printLog"

UnknownDescriptor(name) ==
  <<PrintLogImpl((IF name \in {"onOpenFile", "onOpenSocket"} THEN "onOpen"
                  ELSE name) \o ": for unknown file descriptor\n")>>

\* C5: an envelope with a known name whose argument count or types do not
\* match the expected shape produces a printLog diagnostic and changes no
\* bridge state: the registry and the session state are unchanged, no
\* stream handle is notified and the terminal size is not set.
C5_ShapeValidated ==
  [][(HandlerStep' /\ ~ShapeOK')
       => /\ OneDiagnostic' /\ notes' = << >>
          /\ streams_' = streams_
          /\ UNCHANGED sessionVars]_vars

\* C6: a well-shaped onRead, onClose, onWriteAcknowledge, onReadReady or
\* onOpenFile/onOpenSocket whose fd (any number) is not registered emits
\* exactly one printLog diagnostic, notifies no stream handle and leaves
\* the registry as it was.
C6_UnknownFd ==
  [][(FdOperation' /\ ~(FdStep' /\ StepFd' \in DOMAIN streams_))
       => /\ OneDiagnostic' /\ notes' = << >>
          /\ streams_' = streams_]_vars

\* The last step handled a well-shaped onOpenFile/onOpenSocket.
OpenResultStep == FdStep /\ last.m.name \in {"onOpenFile", "onOpenSocket"}

\* C7: for a registered fd, an onOpenFile/onOpenSocket with success=false
\* forwards the result to the handle and removes the fd (and no other) from
\* the registry; with success=true the result is forwarded and the fd stays
\* registered; an unregistered fd becomes registered only by OpenFile or
\* OpenSocket for it, and until then every well-shaped operation on it
\* reports an unknown descriptor.
C7_FailedOpen ==
  [][
      /\ (OpenResultStep' /\ StepFd' \in DOMAIN streams_)
          => /\ notes' = <<Note(streams_[StepFd'], "OnOpen",
                                <<last'.m.args.a[2], last'.m.args.a[3]>>)>>
             /\ DOMAIN streams_' =
                  IF last'.m.args.a[2].b THEN DOMAIN streams_
                  ELSE DOMAIN streams_ \ {StepFd'}
             /\ \A fd \in DOMAIN streams_' : streams_'[fd] = streams_[fd]
      /\ \A fd \in Fds :
           (fd \notin DOMAIN streams_ /\ fd \in DOMAIN streams_')
             => (last'.op \in {"OpenFile", "OpenSocket"} /\ last'.m.fd = fd)
      /\ (FdStep' /\ StepFd' \notin DOMAIN streams_)
           => out' = UnknownDescriptor(last'.m.name)
  ]_vars

\* C7 witness: a failed open result for fd 0 was forwarded to its handle
\* and fd 0 is gone from the registry while fd 1 is still there.
C7_FailedOpenRemoved ==
  /\ last.op = "HandleMessage"
  /\ last.m = Envelope("onOpenFile", <<JInt(0), JBool(FALSE), JBool(FALSE)>>)
  /\ notes = <<Note("h1", "OnOpen", <<JBool(FALSE), JBool(FALSE)>>)>>
  /\ DOMAIN streams_ = {1}

\* C8: OpenFile or OpenSocket for a fd that is already in the registry
\* leaves the registry as it was: the handle mapped to the fd stays mapped.
C8_DuplicateRejected ==
  [][(last'.op \in {"OpenFile", "OpenSocket"} /\ last'.m.fd \in DOMAIN streams_)
       => streams_' = streams_]_vars

\* The bytes an envelope's base64 text decodes to.
Decoded(env) == b64_pton(env.args[2].s, kMaxWriteSize + 3)

\* C9: Write of N bytes emits ceil(N/C) 'write' envelopes for the given fd
\* whose decoded payloads are, in order, the consecutive slices of at most
\* C bytes of the data, and returns success; for N = 0 it emits none.
C9_Chunking ==
  last.op = "Write" =>
    LET data == last.m.data
        N == Len(data)
        C == kMaxWriteSize
    IN /\ last.m.ret /\ ~crashed
       /\ Len(out) = (N + C - 1) \div C
       /\ \A i \in 1 .. Len(out) :
            /\ out[i].name = "write"
            /\ Len(out[i].args) = 2
            /\ out[i].args[1] = JInt(last.m.fd)
            /\ Decoded(out[i]).res = (IF i * C <= N THEN C ELSE N - (i - 1) * C)
            /\ Decoded(out[i]).bytes =
                 SubSeq(data, (i - 1) * C + 1, IF i * C <= N THEN i * C ELSE N)

\* C9 witness: a payload of two full chunks and 7 bytes went out in three
\* envelopes.
C9_ThreeChunks ==
  /\ last.op = "Write"
  /\ Len(last.m.data) = 2 * kMaxWriteSize + 7
  /\ Len(out) = 3 /\ last.m.ret

\* C10: host-facing errors never terminate the message-handling context:
\* after an inbound onRead envelope, whatever its data string, the bridge
\* can still process the next envelope; a decode failure does not end the
\* process.
C10_ReadNeverTerminates ==
  (last.op = "HandleMessage" /\ last.m.name = "onRead") => ~crashed

\* C11: for a registered fd a well-shaped onRead, onWriteAcknowledge or
\* onReadReady forwards exactly one notification, to the handle mapped to
\* that fd, and leaves the registry as it was.
C11_ForwardsAndKeeps ==
  [][(/\ FdStep'
      /\ last'.m.name \in {"onRead", "onWriteAcknowledge", "onReadReady"}
      /\ StepFd' \in DOMAIN streams_)
       => /\ Len(notes') = 1 /\ notes'[1].h = streams_[StepFd']
          /\ streams_' = streams_]_vars

\* C12: a well-shaped onClose for a registered fd notifies that fd's handle
\* of closure once and removes that fd and no other from the registry; an
\* fd that is not registered is registered by OpenFile or OpenSocket with
\* the handle given.
C12_CloseRemoves ==
  [][
      /\ (FdStep' /\ last'.m.name = "onClose" /\ StepFd' \in DOMAIN streams_)
          => /\ notes' = <<Note(streams_[StepFd'], "OnClose", << >>)>>
             /\ out' = << >>
             /\ DOMAIN streams_' = DOMAIN streams_ \ {StepFd'}
             /\ \A fd \in DOMAIN streams_' : streams_'[fd] = streams_[fd]
      /\ (last'.op \in {"OpenFile", "OpenSocket"}
            /\ last'.m.fd \notin DOMAIN streams_)
          => /\ DOMAIN streams_' = DOMAIN streams_ \cup {last'.m.fd}
             /\ streams_'[last'.m.fd] = last'.m.stream
  ]_vars

\* C12 witness: onClose for fd 0 was handled, its handle h2 was notified,
\* and fd 1 alone is left in the registry.
C12_ClosedAndRemoved ==
  /\ last.op = "HandleMessage"
  /\ last.m = Envelope("onClose", <<JInt(0)>>)
  /\ notes = <<Note("h2", "OnClose", << >>)>>
  /\ DOMAIN streams_ = {1}

\* C13: an envelope whose name is a string that is none of the nine handler
\* names (a handler name followed by a NUL and more text included) causes
\* no outbound envelope, no call to a handle, no registry change and no
\* change of the session state or of the queued callbacks.
C13_UnknownNameIgnored ==
  [][(/\ last'.op = "HandleMessage" /\ Dispatches(last'.m)
      /\ last'.m.nk = "str"
      /\ (last'.m.nul \/ last'.m.name \notin HandlerNames))
       => /\ out' = << >> /\ notes' = << >>
          /\ streams_' = streams_
          /\ UNCHANGED <<sessionVars, pending, crashed>>]_vars

\* A raw message that is not a string, does not parse, is not an object,
\* lacks a non-empty name, or whose arguments are not an array.
Malformed(raw) ==
  \/ raw.var # "string" \/ raw.json # "ok" \/ raw.root # "obj"
  \/ raw.nk # "str" \/ (raw.name = "" /\ ~raw.nul)
  \/ ~isArray(raw.args)

\* C14: a malformed raw message produces no outbound envelope and no state
\* change.
C14_MalformedDropped ==
  [][(last'.op = "HandleMessage" /\ Malformed(last'.m))
       => /\ out' = << >> /\ notes' = << >>
          /\ streams_' = streams_
          /\ UNCHANGED <<sessionVars, pending, crashed>>]_vars

\* ------------------------------------------------------------------------
\* Properties of the argument vector
\* ------------------------------------------------------------------------

\* The tokens 'ssh', '-vvv', '-A', '-v', '-p2222', 'u@h' and the name 'sftp'.
TokSsh == <<115, 115, 104>>

TokVvv == <<45, 118, 118, 118>>

TokA == <<45, 65>>

TokV == <<45, 118>>

TokPort == <<45, 112, 50, 50, 50, 50>>

TokUserHost == <<117, 64, 104>>

TokSftp == <<115, 102, 116, 112>>

\* The token '5@h'.
TokFiveHost == <<53, 64, 104>>

\* What follows the program name for each configuration: cfgFull has
\* username u, host h, port 2222 and arguments ["-A"]; cfgArgs has the
\* username "u\0x", host h, arguments ["-A", 7, "-v\0x"] and the subsystem
\* sftp; cfgUser has the username 5 (a number) and the host "h\0x".  The
\* string conversion of "u\0x" is "u" in jsoncpp 0.5.0, which gives 'u@h',
\* and the whole string in 1.x, which gives 'u\0x@h', as a C string 'u'.
ClaimedTail(cfg) ==
  CASE cfg = JObj("cfgFull") -> <<TokA, TokPort, TokUserHost>>
    [] cfg = JObj("cfgArgs") ->
         <<TokA, TokV, IF jsoncpp = "050" THEN TokUserHost ELSE <<117>>>>
    [] cfg = JObj("cfgUser") -> <<TokFiveHost>>
    [] OTHER -> << >>

ClaimedSubsystem(cfg) ==
  IF cfg = JObj("cfgArgs") THEN JStr(TokSftp) ELSE JNull

\* The callbacks queued for the entries of the argument list that are not
\* strings: one for cfgArgs, none otherwise.
ClaimedLogs(cfg, s) ==
  IF cfg = JObj("cfgArgs")
  THEN <<Callback("PrintLogImpl", "startSession: invalid argument\n", 0, s)>>
  ELSE << >>

\* Each skipped entry queues one printLog, and all of them are queued when
\* the entry point is entered.
SkippedAreLogged ==
  [][\A s \in Sessions :
       /\ (thr'[s].logs = thr[s].logs + 1)
            => pending' = pending \o SubSeq(ClaimedLogs(session_args_, s), 1, 1)
       /\ (thr[s].pc = "wait" /\ thr'[s].pc = "main")
            => thr[s].logs = Len(ClaimedLogs(session_args_, s))]_vars

\* C15 (as amended): the invocation passed to the entry point is 'ssh',
\* then '-vvv' in a DEBUG build, then the string entries of the argument
\* list in order, each as a C string (each other entry skipped and logged),
\* then '-p<port>' if a port is configured, then '<user>@<host>' (the two
\* converted to strings by the JSON library and joined, as a C string) if
\* both are configured; the subsystem is a separate parameter and no argv
\* token.
C15_ArgvWithVerbose ==
  /\ [](\A s \in Sessions :
          Running(s) =>
            /\ thr[s].argv = <<TokSsh>> \o (IF debug THEN <<TokVvv>> ELSE << >>)
                               \o ClaimedTail(session_args_)
            /\ thr[s].subsystem = ClaimedSubsystem(session_args_))
  /\ SkippedAreLogged

\* C15 witness: session 1 runs with username u, host h, port 2222 and
\* arguments ["-A"] in a build without DEBUG: argv is [ssh, -A, -p2222, u@h].
C15_ExampleArgv ==
  /\ Running(1) /\ session_args_ = JObj("cfgFull") /\ ~debug
  /\ thr[1].argv = <<TokSsh, TokA, TokPort, TokUserHost>>
  /\ thr[1].subsystem = JNull

\* C15 as stated: the invocation is 'ssh', the string entries, '-p<port>',
\* '<user>@<host>' and nothing else; the subsystem is a separate parameter.
C15_ArgvAsStated ==
  /\ [](\A s \in Sessions :
          Running(s) =>
            /\ thr[s].argv = <<TokSsh>> \o ClaimedTail(session_args_)
            /\ thr[s].subsystem = ClaimedSubsystem(session_args_))
  /\ SkippedAreLogged

\* ------------------------------------------------------------------------
\* Properties that order the session's exit
\* ------------------------------------------------------------------------

\* Every accepted session has had its 'exit' envelope sent.
AllReported == nsess >= 1 /\ \A s \in 1 .. nsess : exits[s] = 1

\* The last step handled a message that removes a descriptor: an onClose,
\* or an onOpenFile/onOpenSocket with success=false.
RemovingStep ==
  /\ last.op = "HandleMessage" /\ Dispatches(last.m)
  /\ \/ Function(last.m) = "onClose"
     \/ /\ Function(last.m) \in {"onOpenFile", "onOpenSocket"}
        /\ Len(last.m.args.a) >= 2 /\ last.m.args.a[2] = JBool(FALSE)

\* The last step sent an 'exit' envelope.
ExitStep == out = <<SendExitCodeImpl(-1)>> \/
            (last.op = "RunCallback" /\ last.m.fn = "SendExitCodeImpl")

\* C17: once the exit of every session so far has been reported, no
\* descriptor registered during a session remains in the registry; a
\* descriptor leaves the registry only through an onOpen with
\* success=false, an onClose, or the report of an exit.
C17_TeardownEmptiesRegistry ==
  /\ [](AllReported => DOMAIN streams_ = {})
  /\ [][(\E fd \in DOMAIN streams_ : fd \notin DOMAIN streams_')
          => (RemovingStep' \/ ExitStep')]_vars

\* C18: a startSession is accepted for session n+1 only after the 'exit'
\* envelope of session n has been sent.
C18_ExitBeforeRestart ==
  [][(nsess' = nsess + 1 /\ nsess >= 1) => exits[nsess] = 1]_vars

\* C19: Read and Close each emit exactly one envelope ('read' [fd, size],
\* 'close' [fd]), return success and leave the registry unchanged; a
\* registered fd for which Close was requested has the next well-shaped
\* inbound operation on it forwarded to its handle, and a fd leaves the
\* registry only when an onClose or a failed onOpen is handled.
C19_ReadCloseFireAndForget ==
  [][
      /\ last'.op = "Read"
          => /\ out' = <<Env("read", <<JInt(last'.m.fd), JInt(last'.m.size)>>)>>
             /\ last'.m.ret /\ streams_' = streams_
      /\ last'.op = "Close"
          => /\ out' = <<Env("close", <<JInt(last'.m.fd)>>)>>
             /\ last'.m.ret /\ streams_' = streams_
      /\ (last.op = "Close" /\ last.m.fd \in DOMAIN streams_
            /\ FdStep' /\ StepFd' = last.m.fd)
          => Len(notes') = 1 /\ notes'[1].h = streams_[last.m.fd]
      /\ \A fd \in DOMAIN streams_ :
           fd \notin DOMAIN streams_'
             => RemovingStep'
  ]_vars

\* A printLog callback of session s is queued.
LogPending(s) ==
  \E i \in 1 .. Len(pending) :
    pending[i].fn = "PrintLogImpl" /\ pending[i].sid = s

\* C20: a printLog issued by the session context goes to the host from a
\* deferred callback on the message-handling context, never from the
\* session context itself, and before that session's 'exit' envelope: no
\* printLog of a session is sent, or still queued, once its exit was sent.
C20_LogBeforeExit ==
  /\ [](\A s \in Sessions : exits[s] >= 1 => ~LogPending(s))
  /\ [][/\ last'.ctx = "session" => out' = << >>
        /\ (last'.op = "RunCallback" /\ last'.m.fn = "PrintLogImpl")
             => /\ exits[last'.m.sid] = 0
                /\ out' = <<PrintLogImpl(last'.m.msg)>>]_vars

\* C20 witness: the printLog for a skipped argument entry of a session has
\* just been sent by a callback, and the exit callback of the same session
\* is the next in the queue.
C20_LogThenExit ==
  /\ last.op = "RunCallback" /\ last.m.fn = "PrintLogImpl"
  /\ out = <<PrintLogImpl("startSession: invalid argument\n")>>
  /\ pending # << >>
  /\ Head(pending).fn = "SendExitCodeImpl" /\ Head(pending).sid = last.m.sid

====
